---- MODULE Spec2Model ----
(***************************************************************************)
(* Model of transformation.py: the inventory reconciliation run.           *)
(*                                                                         *)
(* Text is modelled as a sequence of tokens.  A token is a single          *)
(* character (a space, a separator, a digit) or a whole word; the string   *)
(* operations of the code (lower, strip, replace, contains, strptime,      *)
(* to_numeric, lexicographic comparison) are computed on token sequences.  *)
(*                                                                         *)
(* A data frame is [cols, dtypes, rows]: the column labels, in order and   *)
(* with duplicates possible as in pandas, one dtype per column, and the    *)
(* rows as tuples of cells.  A cell is [str |-> text], [num |-> n],        *)
(* [nan |-> TRUE] or [date |-> [y, m, d]].                                 *)
(*                                                                         *)
(* Quantities and weights are integers.  The input domains below keep the  *)
(* quantity and weight cells numerals or blank and the date cells text.    *)
(***************************************************************************)
EXTENDS Integers, Sequences, FiniteSets, TLC

VARIABLES
    pc,               \* position of main / process_sheets_data
    source,           \* the source spreadsheet: its two worksheets
    stock_inflow_df,  \* main's and process_sheets_data's stock_inflow_df
    release_df,       \* main's and process_sheets_data's release_df
    summary_df,       \* the summary table (a sequence of rows)
    error,            \* the DataProcessingError raised, <<>> when none
    returned,         \* whether process_sheets_data returned its three tables to main
    success,          \* main's success flag of the upload loop
    task,             \* index into upload_tasks
    calls,            \* the clear / update calls issued to the output spreadsheet
    attempts,         \* the outcome of each upload_df_to_gsheet call, in order
    output            \* the output spreadsheet: the state of each output sheet

vars == <<pc, source, stock_inflow_df, release_df, summary_df, error, returned,
          success, task, calls, attempts, output>>

-----------------------------------------------------------------------------
(* Bounds of the input domains *)

MaxRows == 2          \* data rows over the two worksheets, runs of main
MaxProcessRows == 3   \* the same, runs of process_sheets_data
MaxLedgerRows == 3    \* the same, runs of create_summary_df

-----------------------------------------------------------------------------
(* Program constants *)

SHEET_NAMES ==
    [STOCK_INFLOW |-> "stock_inflow", RELEASE |-> "release",
     STOCK_INFLOW_CLEAN |-> "stock_inflow_clean",
     RELEASE_CLEAN |-> "release_clean", SUMMARY |-> "summary"]

WHOLE_CHICKEN == <<"whole", " ", "chicken">>
GIZZARD == <<"gizzard">>
PRODUCT_TYPES == [WHOLE_CHICKEN |-> WHOLE_CHICKEN, GIZZARD |-> GIZZARD]

DATE_FORMATS ==
    << <<"%d", " ", "%b", " ", "%Y">>,
       <<"%d", "/", "%m", "/", "%y">>,
       <<"%d", "-", "%b", "-", "%Y">> >>

-----------------------------------------------------------------------------
(* Strings *)

ToLower ==
    ("Date" :> "date") @@ ("Product" :> "product") @@ ("Type" :> "type") @@
    ("Quantity" :> "quantity") @@ ("Weight" :> "weight") @@ ("In" :> "in") @@
    ("Kg" :> "kg") @@ ("At" :> "at") @@ ("Delivery" :> "delivery") @@
    ("Whole" :> "whole") @@ ("Chicken" :> "chicken") @@ ("Gizzard" :> "gizzard") @@
    ("Jan" :> "jan") @@ ("Feb" :> "feb") @@ ("Mar" :> "mar") @@ ("Apr" :> "apr") @@
    ("May" :> "may") @@ ("Jun" :> "jun") @@ ("Jul" :> "jul") @@ ("Aug" :> "aug") @@
    ("Sep" :> "sep") @@ ("Oct" :> "oct") @@ ("Nov" :> "nov") @@ ("Dec" :> "dec") @@
    ("N" :> "n") @@ ("A" :> "a")

LowerToken(t) == IF t \in DOMAIN ToLower THEN ToLower[t] ELSE t

StrLower(s) == [i \in 1..Len(s) |-> LowerToken(s[i])]

RECURSIVE StrStrip(_)
StrStrip(s) ==
    IF s = <<>> THEN s
    ELSE IF Head(s) = " " THEN StrStrip(Tail(s))
    ELSE IF s[Len(s)] = " " THEN StrStrip(SubSeq(s, 1, Len(s) - 1))
    ELSE s

StrReplace(s, old, new) == [i \in 1..Len(s) |-> IF s[i] = old THEN new ELSE s[i]]

StrRemove(s, old) == SelectSeq(s, LAMBDA t : t # old)

StrContains(s, sub) ==
    \E i \in 1..(Len(s) - Len(sub) + 1) : SubSeq(s, i, i + Len(sub) - 1) = sub

DigitValue ==
    ("0" :> 0) @@ ("1" :> 1) @@ ("2" :> 2) @@ ("3" :> 3) @@ ("4" :> 4) @@
    ("5" :> 5) @@ ("6" :> 6) @@ ("7" :> 7) @@ ("8" :> 8) @@ ("9" :> 9)

IsNumeral(s) == \A i \in 1..Len(s) : s[i] \in DOMAIN DigitValue

RECURSIVE NumeralValue(_)
NumeralValue(s) ==
    IF s = <<>> THEN 0
    ELSE 10 * NumeralValue(SubSeq(s, 1, Len(s) - 1)) + DigitValue[s[Len(s)]]

(* Code-point order of the tokens that occur in a 'YYYY-Mon' key. *)
Collation ==
    <<"-", "2023", "2024", "2025", "Apr", "Aug", "Dec", "Feb", "Jan", "Jul",
      "Jun", "Mar", "May", "Nov", "Oct", "Sep">>

TokenRank(t) == CHOOSE i \in 1..Len(Collation) : Collation[i] = t

RECURSIVE StrLess(_, _)
StrLess(a, b) ==
    IF b = <<>> THEN FALSE
    ELSE IF a = <<>> THEN TRUE
    ELSE IF Head(a) = Head(b) THEN StrLess(Tail(a), Tail(b))
    ELSE TokenRank(Head(a)) < TokenRank(Head(b))

-----------------------------------------------------------------------------
(* Cells and frames *)

Str(s) == [str |-> s]
Num(n) == [num |-> n]
NaN == [nan |-> TRUE]

IsStr(c) == DOMAIN c = {"str"}
IsNum(c) == DOMAIN c = {"num"}
IsNaN(c) == DOMAIN c = {"nan"}
IsDate(c) == DOMAIN c = {"date"}

NoFrame == [cols |-> <<>>, dtypes |-> <<>>, rows |-> <<>>]

ColumnIndexes(df, name) == {i \in 1..Len(df.cols) : df.cols[i] = name}
HasColumn(df, name) == ColumnIndexes(df, name) # {}
ColumnIndex(df, name) == CHOOSE i \in ColumnIndexes(df, name) : TRUE
UniqueColumns(df) ==
    \A i, j \in 1..Len(df.cols) : df.cols[i] = df.cols[j] => i = j
Column(df, name) == [r \in 1..Len(df.rows) |-> df.rows[r][ColumnIndex(df, name)]]

(* df[name] = values: overwrite the column when it exists, append it otherwise *)
SetColumn(df, name, dtype, values) ==
    IF HasColumn(df, name)
    THEN LET k == ColumnIndex(df, name)
         IN  [cols |-> df.cols,
              dtypes |-> [df.dtypes EXCEPT ![k] = dtype],
              rows |-> [r \in 1..Len(df.rows) |-> [df.rows[r] EXCEPT ![k] = values[r]]]]
    ELSE [cols |-> Append(df.cols, name),
          dtypes |-> Append(df.dtypes, dtype),
          rows |-> [r \in 1..Len(df.rows) |-> Append(df.rows[r], values[r])]]

RenameColumns(df, old, new) ==
    [df EXCEPT !.cols = [i \in 1..Len(df.cols) |-> IF df.cols[i] = old THEN new ELSE df.cols[i]]]

Failure(msg) == [ok |-> FALSE, err |-> msg, df |-> NoFrame]
Success(df) == [ok |-> TRUE, err |-> "", df |-> df]

-----------------------------------------------------------------------------
(* Column labels *)

COL_date == <<"date">>
COL_product == <<"product">>
COL_product_type == <<"product", "_", "type">>
COL_quantity == <<"quantity">>
COL_weight == <<"weight">>
COL_weight_in_kg == <<"weight", "_", "in", "_", "kg">>
COL_weight_at_delivery == <<"weight", "_", "at", "_", "delivery">>
COL_month == <<"month">>
COL_year_month == <<"year", "_", "month">>

-----------------------------------------------------------------------------
(* read_worksheet_to_df: the first row is the header, the rest the data; every
   cell is a string *)

ReadWorksheet(sheet) ==
    [cols |-> sheet.header,
     dtypes |-> [i \in 1..Len(sheet.header) |-> "object"],
     rows |-> [r \in 1..Len(sheet.data) |->
                  [i \in 1..Len(sheet.data[r]) |-> Str(sheet.data[r][i])]]]

-----------------------------------------------------------------------------
(* standardize_dataframe *)

CanonicalName(h) ==
    StrReplace(StrReplace(StrStrip(StrLower(h)), " ", "_"), "-", "_")

(* astype(str).str.strip().str.lower() of a cell read from a worksheet *)
CleanCell(c) == StrLower(StrStrip(c.str))

(* pd.to_numeric of one string: a numeral, or the empty string and 'nan',
   which both give NaN; anything else raises ValueError *)
NumericText(s) == IsNumeral(s) \/ s = <<"nan">>
ToNumeric(s) == IF s = <<>> \/ s = <<"nan">> THEN NaN ELSE Num(NumeralValue(s))

StandardizeDataframe(df) ==
    LET named == [df EXCEPT !.cols = [i \in 1..Len(df.cols) |-> CanonicalName(df.cols[i])]]
        renamed == IF HasColumn(named, COL_weight_in_kg)
                   THEN RenameColumns(named, COL_weight_in_kg, COL_weight)
                   ELSE named
        clean(r, k) == CleanCell(renamed.rows[r][k])
        numeric(k) == \A r \in 1..Len(renamed.rows) :
                          NumericText(StrRemove(clean(r, k), ","))
    IN  IF ~UniqueColumns(renamed)
        THEN Failure("Failed to standardize dataframe")
        ELSE Success(
            [cols |-> renamed.cols,
             dtypes |-> [k \in 1..Len(renamed.cols) |->
                            IF numeric(k) THEN "number" ELSE "object"],
             rows |-> [r \in 1..Len(renamed.rows) |->
                          [k \in 1..Len(renamed.cols) |->
                              IF numeric(k)
                              THEN ToNumeric(StrRemove(clean(r, k), ","))
                              ELSE Str(clean(r, k))]]])

(* the rename of weight_at_delivery that process_sheets_data applies to the
   inflow ledger: DataFrame.rename relabels, it never drops a column *)
RenameDelivery(df) ==
    IF HasColumn(df, COL_weight_at_delivery)
    THEN RenameColumns(df, COL_weight_at_delivery, COL_weight)
    ELSE df

-----------------------------------------------------------------------------
(* The date filter of process_sheets_data *)

(* mutant: only the missing values are dropped, the empty strings are kept *)
NotNaDate(c) == ~IsNaN(c)

(* df['date'].notna() & (df['date'] != '') *)
NotBlankDate(c) == ~IsNaN(c) /\ c # Str(<<>>)

FilterDates(df) ==
    IF ~HasColumn(df, COL_date) THEN Failure("KeyError: 'date'")
    ELSE LET k == ColumnIndex(df, COL_date)
         IN  Success([df EXCEPT !.rows = SelectSeq(df.rows, LAMBDA row : NotBlankDate(row[k]))])

-----------------------------------------------------------------------------
(* standardize_dates *)

DayOfMonth == ("05" :> 5) @@ ("10" :> 10) @@ ("15" :> 15) @@ ("20" :> 20)
MonthAbbr ==
    <<"jan", "feb", "mar", "apr", "may", "jun", "jul", "aug", "sep", "oct",
      "nov", "dec">>
MonthName ==
    <<"Jan", "Feb", "Mar", "Apr", "May", "Jun", "Jul", "Aug", "Sep", "Oct",
      "Nov", "Dec">>
MonthDigits ==
    <<"01", "02", "03", "04", "05", "06", "07", "08", "09", "10", "11", "12">>
Year4 == ("2023" :> 2023) @@ ("2024" :> 2024) @@ ("2025" :> 2025)
Year2 == ("23" :> 2023) @@ ("24" :> 2024) @@ ("25" :> 2025)

IndexIn(seq, x) == CHOOSE i \in 1..Len(seq) : seq[i] = x
InSeq(seq, x) == \E i \in 1..Len(seq) : seq[i] = x

(* one directive or literal of a strptime format against one token; %b is
   matched without regard to case *)
MatchesDirective(d, t) ==
    CASE d = "%d" -> t \in DOMAIN DayOfMonth
      [] d = "%b" -> InSeq(MonthAbbr, LowerToken(t))
      [] d = "%m" -> InSeq(MonthDigits, t)
      [] d = "%Y" -> t \in DOMAIN Year4
      [] d = "%y" -> t \in DOMAIN Year2
      [] OTHER -> t = d

Matches(s, fmt) ==
    Len(s) = Len(fmt) /\ \A i \in 1..Len(fmt) : MatchesDirective(fmt[i], s[i])

Strptime(s, fmt) ==
    LET at(dset) == s[CHOOSE i \in 1..Len(fmt) : fmt[i] \in dset]
        has(d) == \E i \in 1..Len(fmt) : fmt[i] = d
    IN  [y |-> IF has("%Y") THEN Year4[at({"%Y"})] ELSE Year2[at({"%y"})],
         m |-> IF has("%b") THEN IndexIn(MonthAbbr, LowerToken(at({"%b"})))
               ELSE IndexIn(MonthDigits, at({"%m"})),
         d |-> IF has("%d") THEN DayOfMonth[at({"%d"})] ELSE 1]

(* the strings pandas reads as a missing timestamp *)
IsNaTText(s) == s = <<"nan">> \/ s = <<"nat">>
NaT == [nat |-> TRUE]
IsNaT(c) == DOMAIN c = {"nat"}

(* pd.to_datetime(column, format=fmt): every cell must match, or be a NaT string *)
ColumnMatches(cells, fmt) ==
    \A r \in 1..Len(cells) :
        IsStr(cells[r]) /\ (IsNaTText(cells[r].str) \/ Matches(cells[r].str, fmt))

(* pd.to_datetime(column, format='mixed', dayfirst=True): each cell on its own,
   in any of the day-first shapes *)
SomeFormat(s) == \E f \in 1..Len(DATE_FORMATS) : Matches(s, DATE_FORMATS[f])
ColumnMatchesMixed(cells) ==
    \A r \in 1..Len(cells) :
        IsStr(cells[r]) /\ (IsNaTText(cells[r].str) \/ SomeFormat(cells[r].str))

ParseCell(c, fmt) ==
    IF IsNaTText(c.str) THEN NaT ELSE [date |-> Strptime(c.str, fmt)]
ParseCellMixed(c) ==
    IF IsNaTText(c.str) THEN NaT
    ELSE [date |-> Strptime(c.str,
             DATE_FORMATS[CHOOSE f \in 1..Len(DATE_FORMATS) : Matches(c.str, DATE_FORMATS[f])])]

YearText(y) == CHOOSE t \in DOMAIN Year4 : Year4[t] = y
StrftimeMonth(d) == <<MonthAbbr[d.m]>>                     \* '%b', lower-cased
StrftimeYearMonthName(d) == <<YearText(d.y), "-", MonthName[d.m]>>   \* '%Y-%b'
StrftimeYearMonth(d) == <<YearText(d.y), "-", MonthDigits[d.m]>>     \* '%Y-%m'

StandardizeDates(df) ==
    IF df.rows = <<>> THEN Success(df)
    ELSE
    LET cells == Column(df, COL_date)
        strict == {f \in 1..Len(DATE_FORMATS) : ColumnMatches(cells, DATE_FORMATS[f])}
        first == CHOOSE f \in strict : \A g \in strict : f <= g
        parsed == IF strict # {}
                  THEN [r \in 1..Len(cells) |-> ParseCell(cells[r], DATE_FORMATS[first])]
                  ELSE [r \in 1..Len(cells) |-> ParseCellMixed(cells[r])]
        dated == SetColumn(df, COL_date, "datetime", parsed)
        withMonth == SetColumn(dated, COL_month, "object",
                        [r \in 1..Len(cells) |-> Str(StrftimeMonth(parsed[r].date))])
    IN  IF strict = {} /\ ~ColumnMatchesMixed(cells)
        THEN Failure("Failed to standardize dates")
        ELSE IF \E r \in 1..Len(cells) : IsNaT(parsed[r])
        THEN Failure("Failed to standardize dates: Failed to parse dates")
        ELSE Success(SetColumn(withMonth, COL_year_month, "object",
                [r \in 1..Len(cells) |-> Str(StrftimeYearMonthName(parsed[r].date))]))

-----------------------------------------------------------------------------
(* The gizzard correction of process_sheets_data *)

(* mutant: only the product that is exactly 'gizzard' *)
IsGizzardProductExact(c) == IsStr(c) /\ c.str = PRODUCT_TYPES.GIZZARD

(* product.str.contains('gizzard', case=False, na=False) *)
IsGizzardProduct(c) ==
    IsStr(c) /\ StrContains(StrLower(c.str), StrLower(PRODUCT_TYPES.GIZZARD))

ZeroGizzardQuantity(df) ==
    IF ~HasColumn(df, COL_product) THEN Failure("KeyError: 'product'")
    ELSE IF df.dtypes[ColumnIndex(df, COL_product)] # "object"
    THEN Failure("AttributeError: Can only use .str accessor with string values")
    ELSE
    LET p == ColumnIndex(df, COL_product)
        old(r) == IF HasColumn(df, COL_quantity)
                  THEN df.rows[r][ColumnIndex(df, COL_quantity)] ELSE NaN
        dtype == IF HasColumn(df, COL_quantity)
                 THEN df.dtypes[ColumnIndex(df, COL_quantity)] ELSE "number"
    IN  Success(SetColumn(df, COL_quantity, dtype,
            [r \in 1..Len(df.rows) |->
                IF IsGizzardProduct(df.rows[r][p]) THEN Num(0) ELSE old(r)]))

-----------------------------------------------------------------------------
(* create_summary_df *)

YearMonths(df) ==
    {df.rows[r][ColumnIndex(df, COL_year_month)].str : r \in 1..Len(df.rows)}

(* mutant: only the months of the inflow ledger *)
InflowYearMonths(inflow, release) == YearMonths(inflow)

(* sorted(list(set(...) | set(...))): the keys in string order *)
AllYearMonths(inflow, release) == YearMonths(inflow) \cup YearMonths(release)

RECURSIVE SortedStrings(_)
SortedStrings(S) ==
    IF S = {} THEN <<>>
    ELSE LET least == CHOOSE x \in S : \A y \in S : y = x \/ StrLess(x, y)
         IN  <<least>> \o SortedStrings(S \ {least})

(* df[df[productCol] == product].groupby('year_month').agg({metric: 'sum'}),
   looked up at one year_month; a sum skips NaN, and a key that the aggregate
   lacks maps to NaN, which fillna(0) turns into 0 *)
RECURSIVE SumCells(_)
SumCells(cells) ==
    IF cells = <<>> THEN 0
    ELSE (IF IsNum(Head(cells)) THEN Head(cells).num ELSE 0) + SumCells(Tail(cells))

GroupTotal(df, productCol, product, metric, ym) ==
    LET p == ColumnIndex(df, productCol)
        k == ColumnIndex(df, COL_year_month)
        v == ColumnIndex(df, metric)
        group == SelectSeq(df.rows, LAMBDA row : row[p] = Str(product) /\ row[k] = Str(ym))
    IN  SumCells([r \in 1..Len(group) |-> group[r][v]])

FORMAT_year_month == <<"%Y", "-", "%b">>

(* the row of one year_month before the balances are computed *)
SummaryRow(inflow, release, ym) ==
    [month |-> <<LowerToken(ym[3])>>,
     year_month |-> ym,
     total_chicken_inflow_quantity |->
         GroupTotal(inflow, COL_product_type, PRODUCT_TYPES.WHOLE_CHICKEN, COL_quantity, ym),
     total_chicken_inflow_weight |->
         GroupTotal(inflow, COL_product_type, PRODUCT_TYPES.WHOLE_CHICKEN, COL_weight, ym),
     total_chicken_release_quantity |->
         GroupTotal(release, COL_product, PRODUCT_TYPES.WHOLE_CHICKEN, COL_quantity, ym),
     total_chicken_release_weight |->
         GroupTotal(release, COL_product, PRODUCT_TYPES.WHOLE_CHICKEN, COL_weight, ym),
     total_gizzard_inflow_weight |->
         GroupTotal(inflow, COL_product_type, PRODUCT_TYPES.GIZZARD, COL_weight, ym),
     total_gizzard_release_weight |->
         GroupTotal(release, COL_product, PRODUCT_TYPES.GIZZARD, COL_weight, ym),
     sort_date |-> Strptime(ym, FORMAT_year_month),
     chicken_quantity_opening_stock |-> 0,
     chicken_weight_opening_stock |-> 0,
     gizzard_weight_opening_stock |-> 0,
     chicken_quantity_stock_balance |-> 0,
     chicken_weight_stock_balance |-> 0,
     gizzard_weight_stock_balance |-> 0]

DateLess(a, b) ==
    \/ a.y < b.y
    \/ a.y = b.y /\ a.m < b.m
    \/ a.y = b.y /\ a.m = b.m /\ a.d < b.d

(* sort_values('sort_date', ascending=...) *)
RECURSIVE SortValues(_, _)
SortValues(rows, ascending) ==
    IF rows = <<>> THEN rows
    ELSE LET before(a, b) == IF ascending THEN DateLess(a.sort_date, b.sort_date)
                             ELSE DateLess(b.sort_date, a.sort_date)
             i == CHOOSE i \in 1..Len(rows) :
                      /\ \A j \in 1..Len(rows) : ~before(rows[j], rows[i])
                      /\ \A j \in 1..(i - 1) : before(rows[i], rows[j])
         IN  <<rows[i]>> \o
             SortValues(SubSeq(rows, 1, i - 1) \o SubSeq(rows, i + 1, Len(rows)), ascending)

(* mutant: the rows are walked in the string order of their keys *)
SortAscendingSkipped(rows) == rows
SortAscending(rows) == SortValues(rows, TRUE)

(* mutant: the table is emitted oldest first *)
SortDescendingAscending(rows) == SortValues(rows, TRUE)
SortDescending(rows) == SortValues(rows, FALSE)

(* one pass of the loop body, at position i (1-based here, 0-based in the code) *)
OpeningStock(rows, i) ==
    IF i = 1
    THEN [rows[i] EXCEPT !.chicken_quantity_opening_stock = 0,
                         !.chicken_weight_opening_stock = 0,
                         !.gizzard_weight_opening_stock = 0]
    ELSE [rows[i] EXCEPT
            !.chicken_quantity_opening_stock = rows[i - 1].chicken_quantity_stock_balance,
            !.chicken_weight_opening_stock = rows[i - 1].chicken_weight_stock_balance,
            !.gizzard_weight_opening_stock = rows[i - 1].gizzard_weight_stock_balance]

(* mutant: the chicken weight balance is computed from the quantity totals *)
StockBalanceCrossed(row) ==
    [row EXCEPT
        !.chicken_quantity_stock_balance =
            row.chicken_quantity_opening_stock + row.total_chicken_inflow_quantity
                - row.total_chicken_release_quantity,
        !.chicken_weight_stock_balance =
            row.chicken_weight_opening_stock + row.total_chicken_inflow_quantity
                - row.total_chicken_release_quantity,
        !.gizzard_weight_stock_balance =
            row.gizzard_weight_opening_stock + row.total_gizzard_inflow_weight
                - row.total_gizzard_release_weight]

StockBalance(row) ==
    [row EXCEPT
        !.chicken_quantity_stock_balance =
            row.chicken_quantity_opening_stock + row.total_chicken_inflow_quantity
                - row.total_chicken_release_quantity,
        !.chicken_weight_stock_balance =
            row.chicken_weight_opening_stock + row.total_chicken_inflow_weight
                - row.total_chicken_release_weight,
        !.gizzard_weight_stock_balance =
            row.gizzard_weight_opening_stock + row.total_gizzard_inflow_weight
                - row.total_gizzard_release_weight]

(* the rows after the loop has run for positions 1..n *)
RECURSIVE RunningBalances(_, _)
RunningBalances(rows, n) ==
    IF n = 0 THEN rows
    ELSE LET done == RunningBalances(rows, n - 1)
         IN  [done EXCEPT ![n] = StockBalance(OpeningStock(done, n))]

(* year_month = sort_date.strftime('%Y-%m'); drop('sort_date') *)
EmitRow(row) ==
    [f \in DOMAIN row \ {"sort_date"} |->
        IF f = "year_month" THEN StrftimeYearMonth(row.sort_date) ELSE row[f]]

UsableMetric(df, name) == Cardinality(ColumnIndexes(df, name)) = 1

CreateSummaryDf(inflow, release) ==
    IF \/ ~HasColumn(inflow, COL_year_month) \/ ~HasColumn(release, COL_year_month)
       \/ ~HasColumn(inflow, COL_product_type) \/ ~HasColumn(release, COL_product)
       \/ ~UsableMetric(inflow, COL_quantity) \/ ~UsableMetric(inflow, COL_weight)
       \/ ~UsableMetric(release, COL_quantity) \/ ~UsableMetric(release, COL_weight)
    THEN [ok |-> FALSE, err |-> "Failed to create summary", rows |-> <<>>]
    ELSE LET keys == SortedStrings(AllYearMonths(inflow, release))
             rows == [i \in 1..Len(keys) |-> SummaryRow(inflow, release, keys[i])]
             ascending == SortAscending(rows)
             walked == RunningBalances(ascending, Len(ascending))
             descending == SortDescending(walked)
         IN  [ok |-> TRUE, err |-> "",
              rows |-> [i \in 1..Len(descending) |-> EmitRow(descending[i])]]

-----------------------------------------------------------------------------
(* Input domains: the worksheets of the source spreadsheet *)

DATE_blank == <<>>
DATE_spaces == <<" ">>
DATE_jan == <<"15", " ", "Jan", " ", "2024">>
DATE_feb == <<"10", "/", "02", "/", "24">>
DATE_garbage == <<"N", "/", "A">>
DATE_nan == <<"nan">>

MainDates == {DATE_blank, DATE_jan, DATE_garbage, DATE_nan}

(* the goods of an inflow row: product type, quantity, weight, weight at delivery *)
ChickenDelivery ==
    <<<<"Whole", " ", "Chicken">>, <<"1", "0", "0">>, <<"1", "5", "0">>, <<"1", ",", "4", "0", "0">>>>
GizzardDelivery == <<<<"gizzard", " ">>, <<>>, <<"2", "0">>, <<"2", "5">>>>
InflowGoods == {ChickenDelivery, GizzardDelivery}

(* the goods of a release row: product, quantity, weight *)
ReleaseGoods ==
    {<<<<"whole", " ", "chicken">>, <<"3", "0">>, <<"4", "5">>>>,
     <<<<" ", "Gizzard">>, <<"4">>, <<"5">>>>,
     <<<<"Chicken", " ", "Gizzard">>, <<"7">>, <<"2">>>>}

(* a row: its date cell, then its goods *)
Rows(dates, goods) == {<<d>> \o g : d \in dates, g \in goods}

HEADER_date == <<" ", "Date">>
HEADER_product_type == <<"Product", " ", "Type">>
HEADER_product == <<"Product">>
HEADER_quantity == <<"Quantity">>
HEADER_weight == <<"Weight">>
HEADER_weight_in_kg == <<"Weight", " ", "In", " ", "Kg">>
HEADER_weight_at_delivery == <<"Weight", "-", "At", "-", "Delivery">>

(* a layout: the header of a sheet and, per column, the position of its cell
   in the rows above *)
InflowLayouts ==
    [generic |-> [header |-> <<HEADER_date, HEADER_product_type, HEADER_quantity,
                               HEADER_weight_in_kg>>, cells |-> <<1, 2, 3, 4>>],
     delivery |-> [header |-> <<HEADER_date, HEADER_product_type, HEADER_quantity,
                                HEADER_weight_at_delivery>>, cells |-> <<1, 2, 3, 5>>],
     both |-> [header |-> <<HEADER_date, HEADER_product_type, HEADER_quantity,
                            HEADER_weight, HEADER_weight_at_delivery>>,
               cells |-> <<1, 2, 3, 4, 5>>],
     no_date |-> [header |-> <<HEADER_product_type, HEADER_quantity, HEADER_weight>>,
                  cells |-> <<2, 3, 4>>],
     no_product_type |-> [header |-> <<HEADER_date, HEADER_quantity, HEADER_weight>>,
                          cells |-> <<1, 3, 4>>]]

ReleaseLayouts ==
    [generic |-> [header |-> <<HEADER_date, HEADER_product, HEADER_quantity,
                               HEADER_weight>>, cells |-> <<1, 2, 3, 4>>],
     no_date |-> [header |-> <<HEADER_product, HEADER_quantity, HEADER_weight>>,
                  cells |-> <<2, 3, 4>>],
     no_product |-> [header |-> <<HEADER_date, HEADER_quantity, HEADER_weight>>,
                     cells |-> <<1, 3, 4>>]]

Worksheet(layout, rows) ==
    [header |-> layout.header,
     data |-> [r \in 1..Len(rows) |->
                  [k \in 1..Len(layout.cells) |-> rows[r][layout.cells[k]]]]]

(* the numbers of data rows of the two worksheets, at most n together *)
RowCounts(n) == {c \in (0..n) \X (0..n) : c[1] + c[2] <= n}

Spreadsheet(inflowLayout, inflowRows, releaseLayout, releaseRows) ==
    [stock_inflow |-> Worksheet(InflowLayouts[inflowLayout], inflowRows),
     release |-> Worksheet(ReleaseLayouts[releaseLayout], releaseRows)]

-----------------------------------------------------------------------------
(* main *)

upload_tasks ==
    <<SHEET_NAMES.STOCK_INFLOW_CLEAN, SHEET_NAMES.RELEASE_CLEAN, SHEET_NAMES.SUMMARY>>

OutputSheets == {upload_tasks[k] : k \in 1..Len(upload_tasks)}

Idle(p) ==
    /\ pc = p
    /\ stock_inflow_df = NoFrame /\ release_df = NoFrame /\ summary_df = <<>>
    /\ error = <<>> /\ returned = FALSE /\ success = TRUE /\ task = 1
    /\ calls = <<>> /\ attempts = <<>>
    /\ output = [sh \in OutputSheets |-> "old"]

Init ==
    /\ \E c \in RowCounts(MaxRows), il \in DOMAIN InflowLayouts, rl \in DOMAIN ReleaseLayouts :
          \E ir \in [1..c[1] -> Rows(MainDates, InflowGoods)],
             rr \in [1..c[2] -> Rows(MainDates, ReleaseGoods)] :
              source = Spreadsheet(il, ir, rl, rr)
    /\ Idle("start")

(* an exception that leaves main: main prints it and raises it again *)
Raise(msg) ==
    /\ pc' = "failed"
    /\ error' = msg

(* the environment variables, the credentials, the connection and the service *)
Setup ==
    /\ pc = "start"
    /\ \E ok \in BOOLEAN :
          IF ok THEN pc' = "read_inflow" /\ error' = error
          ELSE Raise(<<"Failed to set up">>)
    /\ UNCHANGED <<source, stock_inflow_df, release_df, summary_df, returned, success,
                   task, calls, attempts, output>>

ReadInflow ==
    /\ pc = "read_inflow"
    /\ \E ok \in BOOLEAN :
          IF ok
          THEN /\ stock_inflow_df' = ReadWorksheet(source.stock_inflow)
               /\ pc' = "read_release" /\ error' = error
          ELSE /\ Raise(<<"Failed to read worksheet", SHEET_NAMES.STOCK_INFLOW>>)
               /\ stock_inflow_df' = stock_inflow_df
    /\ UNCHANGED <<source, release_df, summary_df, returned, success, task, calls,
                   attempts, output>>

ReadRelease ==
    /\ pc = "read_release"
    /\ \E ok \in BOOLEAN :
          IF ok
          THEN /\ release_df' = ReadWorksheet(source.release)
               /\ pc' = "standardize_inflow" /\ error' = error
          ELSE /\ Raise(<<"Failed to read worksheet", SHEET_NAMES.RELEASE>>)
               /\ release_df' = release_df
    /\ UNCHANGED <<source, stock_inflow_df, summary_df, returned, success, task, calls,
                   attempts, output>>

-----------------------------------------------------------------------------
(* process_sheets_data, one action per statement *)

(* mutant: the failure is recorded and main goes on to its upload loop *)
ProcessFailedContinues(cause) ==
    /\ pc' = "upload"
    /\ error' = <<"Failed to process sheets data", cause>>

(* any exception inside process_sheets_data leaves it, and then main, as a
   DataProcessingError: nothing is returned and main's upload loop is not reached *)
ProcessFailed(cause) == Raise(<<"Failed to process sheets data", cause>>)

StandardizeInflow ==
    /\ pc = "standardize_inflow"
    /\ LET res == StandardizeDataframe(stock_inflow_df)
       IN  IF res.ok
           THEN /\ stock_inflow_df' = RenameDelivery(res.df)
                /\ pc' = "standardize_release" /\ error' = error
           ELSE ProcessFailed(res.err) /\ stock_inflow_df' = stock_inflow_df
    /\ UNCHANGED <<source, release_df, summary_df, returned, success, task, calls,
                   attempts, output>>

StandardizeRelease ==
    /\ pc = "standardize_release"
    /\ LET res == StandardizeDataframe(release_df)
       IN  IF res.ok
           THEN /\ release_df' = res.df
                /\ pc' = "filter_dates" /\ error' = error
           ELSE ProcessFailed(res.err) /\ release_df' = release_df
    /\ UNCHANGED <<source, stock_inflow_df, summary_df, returned, success, task, calls,
                   attempts, output>>

FilterEmptyDates ==
    /\ pc = "filter_dates"
    /\ LET inflow == FilterDates(stock_inflow_df)
           release == FilterDates(release_df)
       IN  IF ~inflow.ok
           THEN ProcessFailed(inflow.err) /\ UNCHANGED <<stock_inflow_df, release_df>>
           ELSE IF ~release.ok
           THEN /\ ProcessFailed(release.err)
                /\ stock_inflow_df' = inflow.df /\ release_df' = release_df
           ELSE /\ stock_inflow_df' = inflow.df /\ release_df' = release.df
                /\ pc' = "dates_inflow" /\ error' = error
    /\ UNCHANGED <<source, summary_df, returned, success, task, calls, attempts, output>>

DatesInflow ==
    /\ pc = "dates_inflow"
    /\ LET res == StandardizeDates(stock_inflow_df)
       IN  IF res.ok
           THEN /\ stock_inflow_df' = res.df
                /\ pc' = "dates_release" /\ error' = error
           ELSE ProcessFailed(res.err) /\ stock_inflow_df' = stock_inflow_df
    /\ UNCHANGED <<source, release_df, summary_df, returned, success, task, calls,
                   attempts, output>>

DatesRelease ==
    /\ pc = "dates_release"
    /\ LET res == StandardizeDates(release_df)
       IN  IF res.ok
           THEN /\ release_df' = res.df
                /\ pc' = "gizzard" /\ error' = error
           ELSE ProcessFailed(res.err) /\ release_df' = release_df
    /\ UNCHANGED <<source, stock_inflow_df, summary_df, returned, success, task, calls,
                   attempts, output>>

GizzardQuantity ==
    /\ pc = "gizzard"
    /\ LET res == ZeroGizzardQuantity(release_df)
       IN  IF res.ok
           THEN /\ release_df' = res.df
                /\ pc' = "create_summary" /\ error' = error
           ELSE ProcessFailed(res.err) /\ release_df' = release_df
    /\ UNCHANGED <<source, stock_inflow_df, summary_df, returned, success, task, calls,
                   attempts, output>>

CreateSummary ==
    /\ pc = "create_summary"
    /\ LET res == CreateSummaryDf(stock_inflow_df, release_df)
       IN  IF res.ok
           THEN /\ summary_df' = res.rows /\ returned' = TRUE
                /\ pc' = "upload" /\ error' = error
           ELSE ProcessFailed(res.err) /\ UNCHANGED <<summary_df, returned>>
    /\ UNCHANGED <<source, stock_inflow_df, release_df, success, task, calls, attempts,
                   output>>

-----------------------------------------------------------------------------
(* The upload loop of main *)

(* upload_df_to_gsheet: clear the sheet, then write it; an exception of either
   call is caught and the function returns False *)
UploadOutcomes == {"uploaded", "clear_failed", "update_failed"}

(* mutant: the flag holds the outcome of the last upload only *)
UploadLastOutcome ==
    /\ pc = "upload"
    /\ task <= Len(upload_tasks)
    /\ \E outcome \in UploadOutcomes :
          LET sheet == upload_tasks[task]
              cleared == outcome # "clear_failed"
              updated == outcome = "uploaded"
          IN  /\ calls' = calls \o <<[call |-> "clear", sheet |-> sheet]>>
                                \o (IF cleared THEN <<[call |-> "update", sheet |-> sheet]>>
                                    ELSE <<>>)
              /\ output' = [output EXCEPT ![sheet] =
                               IF updated THEN "uploaded"
                               ELSE IF cleared THEN "cleared" ELSE @]
              /\ attempts' = Append(attempts, [sheet |-> sheet, ok |-> updated])
              /\ success' = updated
    /\ task' = task + 1
    /\ UNCHANGED <<pc, source, stock_inflow_df, release_df, summary_df, error, returned>>

Upload ==
    /\ pc = "upload"
    /\ task <= Len(upload_tasks)
    /\ \E outcome \in UploadOutcomes :
          LET sheet == upload_tasks[task]
              cleared == outcome # "clear_failed"
              updated == outcome = "uploaded"
          IN  /\ calls' = calls \o <<[call |-> "clear", sheet |-> sheet]>>
                                \o (IF cleared THEN <<[call |-> "update", sheet |-> sheet]>>
                                    ELSE <<>>)
              /\ output' = [output EXCEPT ![sheet] =
                               IF updated THEN "uploaded"
                               ELSE IF cleared THEN "cleared" ELSE @]
              /\ attempts' = Append(attempts, [sheet |-> sheet, ok |-> updated])
              /\ success' = IF updated THEN success ELSE FALSE
    /\ task' = task + 1
    /\ UNCHANGED <<pc, source, stock_inflow_df, release_df, summary_df, error, returned>>

Finish ==
    /\ pc = "upload"
    /\ task > Len(upload_tasks)
    /\ IF success THEN pc' = "done" /\ error' = error
       ELSE Raise(<<"Failed to upload one or more datasets">>)
    /\ UNCHANGED <<source, stock_inflow_df, release_df, summary_df, returned, success,
                   task, calls, attempts, output>>

Next ==
    \/ Setup \/ ReadInflow \/ ReadRelease
    \/ StandardizeInflow \/ StandardizeRelease \/ FilterEmptyDates
    \/ DatesInflow \/ DatesRelease \/ GizzardQuantity \/ CreateSummary
    \/ Upload \/ Finish

Spec == Init /\ [][Next]_vars

-----------------------------------------------------------------------------
(* process_sheets_data on its own: the two frames as read from well-formed
   worksheets whose date cells may be blank, in either of two formats, or
   malformed *)

ProcessInflowDates == {DATE_blank, DATE_spaces, DATE_jan, DATE_feb, DATE_garbage}
ProcessReleaseDates == {DATE_spaces, DATE_jan, DATE_feb, DATE_garbage}

InitProcess ==
    /\ \E c \in RowCounts(MaxProcessRows) :
          \E ir \in [1..c[1] -> Rows(ProcessInflowDates, {ChickenDelivery})],
             rr \in [1..c[2] -> Rows(ProcessReleaseDates, ReleaseGoods)] :
              source = Spreadsheet("generic", ir, "generic", rr)
    /\ pc = "standardize_inflow"
    /\ stock_inflow_df = ReadWorksheet(source.stock_inflow)
    /\ release_df = ReadWorksheet(source.release)
    /\ summary_df = <<>>
    /\ error = <<>> /\ returned = FALSE /\ success = TRUE /\ task = 1
    /\ calls = <<>> /\ attempts = <<>>
    /\ output = [sh \in OutputSheets |-> "old"]

NextProcess ==
    \/ StandardizeInflow \/ StandardizeRelease \/ FilterEmptyDates
    \/ DatesInflow \/ DatesRelease \/ GizzardQuantity \/ CreateSummary

SpecProcess == InitProcess /\ [][NextProcess]_vars

-----------------------------------------------------------------------------
(* create_summary_df on its own: the two ledgers as process_sheets_data hands
   them over, normalized from worksheets dated over three calendar months *)

DATE_dec == <<"05", " ", "Dec", " ", "2023">>
DATE_feb_long == <<"10", " ", "Feb", " ", "2024">>
LedgerDates == {DATE_dec, DATE_jan, DATE_feb_long}

NormalizedInflow(sheet) ==
    LET std == StandardizeDataframe(ReadWorksheet(sheet))
        kept == FilterDates(RenameDelivery(std.df))
    IN  IF ~std.ok THEN std ELSE IF ~kept.ok THEN kept ELSE StandardizeDates(kept.df)

NormalizedRelease(sheet) ==
    LET std == StandardizeDataframe(ReadWorksheet(sheet))
        kept == FilterDates(std.df)
        dated == StandardizeDates(kept.df)
    IN  IF ~std.ok THEN std ELSE IF ~kept.ok THEN kept
        ELSE IF ~dated.ok THEN dated ELSE ZeroGizzardQuantity(dated.df)

InitSummary ==
    /\ \E c \in RowCounts(MaxLedgerRows) :
          \E ir \in [1..c[1] -> Rows(LedgerDates, InflowGoods)],
             rr \in [1..c[2] -> Rows(LedgerDates, ReleaseGoods)] :
              source = Spreadsheet("generic", ir, "generic", rr)
    /\ LET inflow == NormalizedInflow(source.stock_inflow)
           release == NormalizedRelease(source.release)
       IN  /\ inflow.ok /\ release.ok
           /\ stock_inflow_df = inflow.df
           /\ release_df = release.df
    /\ pc = "create_summary"
    /\ summary_df = <<>>
    /\ error = <<>> /\ returned = FALSE /\ success = TRUE /\ task = 1
    /\ calls = <<>> /\ attempts = <<>>
    /\ output = [sh \in OutputSheets |-> "old"]

NextSummary == CreateSummary

SpecSummary == InitSummary /\ [][NextSummary]_vars

-----------------------------------------------------------------------------
(* What the worksheets hold, read off their cells (generic layout: date,
   product, quantity, weight) *)

CleanText(t) == StrLower(StrStrip(t))

RECURSIVE Total(_)
Total(numbers) == IF numbers = <<>> THEN 0 ELSE Head(numbers) + Total(Tail(numbers))

CellNumber(t) == IF CleanText(t) = <<>> THEN 0 ELSE NumeralValue(StrRemove(CleanText(t), ","))

(* the calendar month of a date cell, counted in months *)
CellMonth(t) ==
    LET c == CleanText(t)
    IN  IF c[2] = "/" THEN Year2[c[5]] * 12 + IndexIn(MonthDigits, c[3])
        ELSE Year4[c[5]] * 12 + IndexIn(MonthAbbr, c[3])

DatedRows(sheet) == SelectSeq(sheet.data, LAMBDA r : CleanText(r[1]) # <<>>)

SheetMonths(sheet) == {CellMonth(DatedRows(sheet)[r][1]) : r \in 1..Len(DatedRows(sheet))}

SheetTotal(sheet, product, cell, month) ==
    LET rows == SelectSeq(DatedRows(sheet),
                    LAMBDA r : CleanText(r[2]) = product /\ CellMonth(r[1]) = month)
    IN  Total([r \in 1..Len(rows) |-> CellNumber(rows[r][cell])])

(* the summary table has been produced *)
SummaryMade == pc = "upload"

(* the calendar month of an emitted row, counted in months *)
RowMonth(row) == Year4[row.year_month[1]] * 12 + IndexIn(MonthDigits, row.year_month[3])

OpeningStocks(row) ==
    <<row.chicken_quantity_opening_stock, row.chicken_weight_opening_stock,
      row.gizzard_weight_opening_stock>>
StockBalances(row) ==
    <<row.chicken_quantity_stock_balance, row.chicken_weight_stock_balance,
      row.gizzard_weight_stock_balance>>

SummaryRows == 1..Len(summary_df)

(* row j is the calendar predecessor of row i among the summary rows *)
PrecedesInCalendar(j, i) ==
    /\ RowMonth(summary_df[j]) < RowMonth(summary_df[i])
    /\ \A k \in SummaryRows :
          ~(RowMonth(summary_df[j]) < RowMonth(summary_df[k])
            /\ RowMonth(summary_df[k]) < RowMonth(summary_df[i]))

-----------------------------------------------------------------------------
(* C1 - Balance continuity: in calendar order of the months, the earliest
   summary row opens with 0 in all three tracked quantities and every later
   row opens with the stock balances of the row of the month before it. *)
C1_BalanceContinuity ==
    SummaryMade =>
        \A i \in SummaryRows :
            /\ (\A j \in SummaryRows : RowMonth(summary_df[j]) >= RowMonth(summary_df[i]))
                   => OpeningStocks(summary_df[i]) = <<0, 0, 0>>
            /\ \A j \in SummaryRows :
                   PrecedesInCalendar(j, i)
                       => OpeningStocks(summary_df[i]) = StockBalances(summary_df[j])

(* three months, December 2023 to February 2024, whose string order differs
   from their calendar order, and stock carried into February *)
C1_Witness ==
    /\ SummaryMade
    /\ Len(summary_df) = 3
    /\ \E i, j \in SummaryRows :
          /\ summary_df[i].year_month = <<"2024", "-", "02">>
          /\ summary_df[j].year_month = <<"2024", "-", "01">>
          /\ OpeningStocks(summary_df[i]) = StockBalances(summary_df[j])
          /\ OpeningStocks(summary_df[i]) # OpeningStocks(summary_df[j])
          /\ summary_df[i].chicken_quantity_opening_stock # 0

(* C2 - Additive consistency: in every summary row each tracked quantity's
   stock balance is its own opening stock plus its own inflow total minus its
   own release total. *)
C2_AdditiveConsistency ==
    SummaryMade =>
        \A i \in SummaryRows :
            LET row == summary_df[i]
            IN  /\ row.chicken_quantity_stock_balance =
                       row.chicken_quantity_opening_stock
                           + row.total_chicken_inflow_quantity
                           - row.total_chicken_release_quantity
                /\ row.chicken_weight_stock_balance =
                       row.chicken_weight_opening_stock
                           + row.total_chicken_inflow_weight
                           - row.total_chicken_release_weight
                /\ row.gizzard_weight_stock_balance =
                       row.gizzard_weight_opening_stock
                           + row.total_gizzard_inflow_weight
                           - row.total_gizzard_release_weight

(* a row with stock carried in, an inflow and a release in the same month, and
   quantity and weight figures that differ *)
C2_Witness ==
    /\ SummaryMade
    /\ \E i \in SummaryRows :
          LET row == summary_df[i]
          IN  /\ row.chicken_quantity_opening_stock # 0
              /\ row.total_chicken_inflow_quantity # 0
              /\ row.total_chicken_release_quantity # 0
              /\ row.total_chicken_inflow_quantity # row.total_chicken_inflow_weight
              /\ row.chicken_quantity_stock_balance # row.chicken_weight_stock_balance

(* C3 - Month-union completeness: the summary has exactly one row per month
   that a dated record of either worksheet falls in, and each of its six totals
   is the sum over that month's records of that product, 0 when there is none. *)
C3_MonthUnionCompleteness ==
    SummaryMade =>
        /\ {RowMonth(summary_df[i]) : i \in SummaryRows}
               = SheetMonths(source.stock_inflow) \cup SheetMonths(source.release)
        /\ Len(summary_df)
               = Cardinality(SheetMonths(source.stock_inflow) \cup SheetMonths(source.release))
        /\ \A i \in SummaryRows :
              LET row == summary_df[i]
                  m == RowMonth(row)
              IN  /\ row.total_chicken_inflow_quantity
                         = SheetTotal(source.stock_inflow, WHOLE_CHICKEN, 3, m)
                  /\ row.total_chicken_inflow_weight
                         = SheetTotal(source.stock_inflow, WHOLE_CHICKEN, 4, m)
                  /\ row.total_chicken_release_quantity
                         = SheetTotal(source.release, WHOLE_CHICKEN, 3, m)
                  /\ row.total_chicken_release_weight
                         = SheetTotal(source.release, WHOLE_CHICKEN, 4, m)
                  /\ row.total_gizzard_inflow_weight
                         = SheetTotal(source.stock_inflow, GIZZARD, 4, m)
                  /\ row.total_gizzard_release_weight
                         = SheetTotal(source.release, GIZZARD, 4, m)

(* a month with releases only, next to a month with inflows only *)
C3_Witness ==
    /\ SummaryMade
    /\ \E i, j \in SummaryRows :
          /\ summary_df[i].total_chicken_release_quantity # 0
          /\ summary_df[i].total_chicken_inflow_quantity = 0
          /\ summary_df[i].total_gizzard_inflow_weight = 0
          /\ RowMonth(summary_df[i]) \notin SheetMonths(source.stock_inflow)
          /\ summary_df[j].total_chicken_inflow_quantity # 0
          /\ RowMonth(summary_df[j]) \notin SheetMonths(source.release)

ExampleSpreadsheet ==
    Spreadsheet("generic", <<<<DATE_jan>> \o ChickenDelivery>>,
                "generic", <<<<DATE_feb_long, <<"whole", " ", "chicken">>, <<"3", "0">>, <<"4", "5">>>>>>)

ExampleSummary ==
    <<[month |-> <<"feb">>, year_month |-> <<"2024", "-", "02">>,
       total_chicken_inflow_quantity |-> 0, total_chicken_inflow_weight |-> 0,
       total_chicken_release_quantity |-> 30, total_chicken_release_weight |-> 45,
       total_gizzard_inflow_weight |-> 0, total_gizzard_release_weight |-> 0,
       chicken_quantity_opening_stock |-> 100, chicken_weight_opening_stock |-> 150,
       gizzard_weight_opening_stock |-> 0,
       chicken_quantity_stock_balance |-> 70, chicken_weight_stock_balance |-> 105,
       gizzard_weight_stock_balance |-> 0],
      [month |-> <<"jan">>, year_month |-> <<"2024", "-", "01">>,
       total_chicken_inflow_quantity |-> 100, total_chicken_inflow_weight |-> 150,
       total_chicken_release_quantity |-> 0, total_chicken_release_weight |-> 0,
       total_gizzard_inflow_weight |-> 0, total_gizzard_release_weight |-> 0,
       chicken_quantity_opening_stock |-> 0, chicken_weight_opening_stock |-> 0,
       gizzard_weight_opening_stock |-> 0,
       chicken_quantity_stock_balance |-> 100, chicken_weight_stock_balance |-> 150,
       gizzard_weight_stock_balance |-> 0]>>

(* C4 - Output order: the emitted summary is strictly descending by calendar
   month, every year_month reads 'YYYY-MM', no row carries the sort helper
   column or the 'YYYY-Mon' key, and the example of one January inflow and one
   February release yields the February row followed by the January row. *)
C4_OutputOrder ==
    SummaryMade =>
        /\ \A i \in SummaryRows :
              /\ "sort_date" \notin DOMAIN summary_df[i]
              /\ Len(summary_df[i].year_month) = 3
              /\ summary_df[i].year_month[1] \in DOMAIN Year4
              /\ summary_df[i].year_month[2] = "-"
              /\ InSeq(MonthDigits, summary_df[i].year_month[3])
              /\ \A f \in {"month", "year_month"} :
                    summary_df[i][f] # StrftimeYearMonthName(
                        Strptime(summary_df[i].year_month, <<"%Y", "-", "%m">>))
        /\ \A i, j \in SummaryRows :
              i < j => RowMonth(summary_df[i]) > RowMonth(summary_df[j])
        /\ source = ExampleSpreadsheet => summary_df = ExampleSummary

C4_Witness ==
    /\ SummaryMade
    /\ source = ExampleSpreadsheet
    /\ summary_df = ExampleSummary

-----------------------------------------------------------------------------
(* What the date cells of a worksheet hold *)

(* a date text that is neither blank, nor a missing-value marker, nor in any
   shape the parsers resolve *)
Unresolvable(t) ==
    /\ CleanText(t) # <<>>
    /\ ~IsNaTText(CleanText(t))
    /\ ~SomeFormat(CleanText(t))

HeaderColumns(sheet, name) ==
    {k \in 1..Len(sheet.header) : CanonicalName(sheet.header[k]) = name}

HasUnresolvableDate(sheet) ==
    \E k \in HeaderColumns(sheet, COL_date), r \in 1..Len(sheet.data) :
        Unresolvable(sheet.data[r][k])

ProcessError == pc = "failed" /\ error[1] = "Failed to process sheets data"

-----------------------------------------------------------------------------
(* C5 - Gizzard quantity suppression: once process_sheets_data has applied
   its correction, every release record whose product contains 'gizzard' has
   quantity 0, and the quantity totals of the summary add up to the quantities
   of the whole-chicken records alone, whatever the gizzard rows held. *)
GizzardCorrected ==
    \/ pc \in {"create_summary", "upload"}
    \/ ProcessError /\ error[2] = "Failed to create summary"

C5_GizzardQuantitySuppression ==
    /\ GizzardCorrected =>
          \A r \in 1..Len(release_df.rows) :
              LET product == release_df.rows[r][ColumnIndex(release_df, COL_product)]
                  quantity == release_df.rows[r][ColumnIndex(release_df, COL_quantity)]
              IN  StrContains(product.str, GIZZARD) => quantity = Num(0)
    /\ SummaryMade =>
          LET chicken == SelectSeq(DatedRows(source.release),
                             LAMBDA row : ~StrContains(StrLower(row[2]), GIZZARD))
          IN  Total([i \in SummaryRows |-> summary_df[i].total_chicken_release_quantity])
                  = Total([r \in 1..Len(chicken) |-> CellNumber(chicken[r][3])])

(* a 'Chicken Gizzard' release with quantity 7 next to a whole-chicken release *)
C5_Witness ==
    /\ SummaryMade
    /\ \E r \in 1..Len(DatedRows(source.release)) :
          /\ DatedRows(source.release)[r][2] = <<"Chicken", " ", "Gizzard">>
          /\ CellNumber(DatedRows(source.release)[r][3]) = 7
    /\ \E i \in SummaryRows : summary_df[i].total_chicken_release_quantity = 30

-----------------------------------------------------------------------------
(* C6 - Weight alias precedence, as claimed: an inflow sheet with both a
   generic weight column and weight_at_delivery is normalized to a table with
   exactly one 'weight' column, holding the delivery values. *)
HasBothWeights(sheet) ==
    /\ HeaderColumns(sheet, COL_weight) \cup HeaderColumns(sheet, COL_weight_in_kg) # {}
    /\ HeaderColumns(sheet, COL_weight_at_delivery) # {}

C6_WeightAliasPrecedence ==
    (pc = "standardize_release" /\ HasBothWeights(source.stock_inflow)) =>
        /\ Cardinality(ColumnIndexes(stock_inflow_df, COL_weight)) = 1
        /\ LET k == CHOOSE k \in HeaderColumns(source.stock_inflow, COL_weight_at_delivery) : TRUE
           IN  Column(stock_inflow_df, COL_weight)
                   = [r \in 1..Len(source.stock_inflow.data) |->
                         Num(CellNumber(source.stock_inflow.data[r][k]))]

-----------------------------------------------------------------------------
(* C7 - Blank-date pre-filter and hard stop: the records with a blank date
   are gone, and all others kept, before any date is parsed; the run ends as
   it would without them; date parsing fails only on a non-blank date that no
   strategy resolves, and one such date fails the whole run. *)
CleanDates(sheet) ==
    [r \in 1..Len(DatedRows(sheet)) |-> Str(CleanText(DatedRows(sheet)[r][1]))]

WithoutBlankDates(sheets) ==
    [stock_inflow |-> [sheets.stock_inflow EXCEPT !.data = DatedRows(sheets.stock_inflow)],
     release |-> [sheets.release EXCEPT !.data = DatedRows(sheets.release)]]

(* the outcome of process_sheets_data on the two worksheets *)
ProcessOutcome(sheets) ==
    LET inflow == NormalizedInflow(sheets.stock_inflow)
        release == NormalizedRelease(sheets.release)
        summary == CreateSummaryDf(inflow.df, release.df)
    IN  IF inflow.ok /\ release.ok /\ summary.ok
        THEN [ok |-> TRUE, summary |-> summary.rows]
        ELSE [ok |-> FALSE, summary |-> <<>>]

DateError ==
    /\ ProcessError
    /\ error[2] \in {"Failed to standardize dates",
                     "Failed to standardize dates: Failed to parse dates"}

C7_BlankDatePreFilter ==
    /\ pc = "dates_inflow" =>
          /\ Column(stock_inflow_df, COL_date) = CleanDates(source.stock_inflow)
          /\ Column(release_df, COL_date) = CleanDates(source.release)
    /\ pc = "dates_release" => Column(release_df, COL_date) = CleanDates(source.release)
    /\ DateError =>
          HasUnresolvableDate(source.stock_inflow) \/ HasUnresolvableDate(source.release)
    /\ pc \in {"gizzard", "create_summary", "upload"} =>
          ~HasUnresolvableDate(source.stock_inflow) /\ ~HasUnresolvableDate(source.release)
    /\ pc \in {"upload", "failed"} =>
          ProcessOutcome(WithoutBlankDates(source))
              = [ok |-> pc = "upload", summary |-> summary_df]

(* a run that succeeds although a record of the inflow sheet has a blank date *)
C7_Witness ==
    /\ SummaryMade
    /\ Len(stock_inflow_df.rows) = 1
    /\ \E r \in 1..Len(source.stock_inflow.data) :
          CleanText(source.stock_inflow.data[r][1]) = <<>>

-----------------------------------------------------------------------------
(* C8 - All-or-nothing failure of the core: a failure inside
   process_sheets_data returns no table and is followed by no clear or update
   call; calls are issued only once both sheets are read and the three tables
   returned; and a sheet lacking a required column or holding an unresolvable
   date never gets its tables returned. *)
HasColumns(sheet, names) == \A n \in names : HeaderColumns(sheet, n) # {}

Defective(sheets) ==
    \/ ~HasColumns(sheets.stock_inflow, {COL_date, COL_product_type})
    \/ ~HasColumns(sheets.release, {COL_date, COL_product})
    \/ HasUnresolvableDate(sheets.stock_inflow)
    \/ HasUnresolvableDate(sheets.release)

C8_AllOrNothing ==
    /\ ProcessError =>
          /\ ~returned /\ summary_df = <<>>
          /\ calls = <<>> /\ attempts = <<>>
          /\ \A sh \in OutputSheets : output[sh] = "old"
    /\ (calls # <<>> \/ attempts # <<>>) =>
          /\ returned
          /\ stock_inflow_df # NoFrame /\ release_df # NoFrame
          /\ Len(summary_df) > 0
    /\ returned => ~Defective(source)
    /\ (Defective(source) /\ pc = "failed" /\ release_df # NoFrame) => ProcessError

(* the release sheet has no product column *)
C8_Witness ==
    /\ ProcessError
    /\ error[2] = "KeyError: 'product'"
    /\ ~HasColumns(source.release, {COL_product})
    /\ Len(stock_inflow_df.rows) > 0

-----------------------------------------------------------------------------
(* C9 - Upload failure aggregation: the three tables are uploaded in the
   order inflow, release, summary, none skipped whatever the earlier outcomes;
   a sheet once written stays written; and main ends with 'Failed to upload
   one or more datasets' exactly when one of the three uploads failed. *)
LoopDone == returned /\ (pc \in {"done", "failed"} \/ (pc = "upload" /\ task > Len(upload_tasks)))

C9_UploadAggregation ==
    /\ Len(attempts) <= Len(upload_tasks)
    /\ \A i \in 1..Len(attempts) : attempts[i].sheet = upload_tasks[i]
    /\ pc = "upload" => Len(attempts) = task - 1
    /\ LoopDone => Len(attempts) = Len(upload_tasks)
    /\ \A i \in 1..Len(attempts) :
          attempts[i].ok => output[attempts[i].sheet] = "uploaded"
    /\ pc = "done" => returned /\ \A i \in 1..Len(attempts) : attempts[i].ok
    /\ (pc = "failed" /\ returned) =>
          /\ error = <<"Failed to upload one or more datasets">>
          /\ \E i \in 1..Len(attempts) : ~attempts[i].ok

(* the first upload fails, the two after it succeed, and main ends in error *)
C9_Witness ==
    /\ pc = "failed" /\ returned
    /\ Len(attempts) = 3
    /\ ~attempts[1].ok /\ attempts[2].ok /\ attempts[3].ok
    /\ output[SHEET_NAMES.RELEASE_CLEAN] = "uploaded"
    /\ output[SHEET_NAMES.SUMMARY] = "uploaded"

-----------------------------------------------------------------------------
(* C10 - One-sided ledgers, as claimed: when one sheet has no dated record
   and the other has some, all resolvable, process_sheets_data succeeds and
   the summary has one row per month of the sheet that has records. *)
WellFormed(sheets) ==
    /\ sheets.stock_inflow.header = InflowLayouts.generic.header
    /\ sheets.release.header = ReleaseLayouts.generic.header
    /\ \A sh \in {sheets.stock_inflow, sheets.release} :
          \A r \in 1..Len(DatedRows(sh)) : SomeFormat(CleanText(DatedRows(sh)[r][1]))

OneSided(sheets) ==
    /\ WellFormed(sheets)
    /\ \/ DatedRows(sheets.stock_inflow) = <<>> /\ DatedRows(sheets.release) # <<>>
       \/ DatedRows(sheets.stock_inflow) # <<>> /\ DatedRows(sheets.release) = <<>>

ProcessEnded == pc \in {"upload", "done"} \/ (pc = "failed" /\ release_df # NoFrame)

C10_OneSidedLedgers ==
    (OneSided(source) /\ ProcessEnded) =>
        /\ returned
        /\ {RowMonth(summary_df[i]) : i \in SummaryRows}
               = SheetMonths(source.stock_inflow) \cup SheetMonths(source.release)
        /\ \A i \in SummaryRows :
              DatedRows(source.stock_inflow) = <<>> =>
                  /\ summary_df[i].total_chicken_inflow_quantity = 0
                  /\ summary_df[i].total_chicken_inflow_weight = 0
                  /\ summary_df[i].total_gizzard_inflow_weight = 0

====
